---- MODULE Spec2Model ----
(***************************************************************************)
(* Model of experiments/histo-seg/inference.py: patch-based inference      *)
(* (PatchBasedInference: torchio GridSampler tiling, GridAggregator with   *)
(* overlap_mode="average") and graph-node-based inference                  *)
(* (GraphNodeBasedInference, get_segmentation_map).                        *)
(*                                                                         *)
(* Tensors are functions from index tuples (0-based, as in the code) to    *)
(* integers.  Soft scores are kept in thousandths.  The quotient computed  *)
(* by torch.true_divide is kept as the reduced fraction <<num, den>>; two  *)
(* quotients of small integers are the same float exactly when the reduced *)
(* fractions are the same.  A division 0/0 (nan) is kept as <<0, 0>>.       *)
(*                                                                         *)
(* GridSampler, GridAggregator and DataLoader are library classes; the     *)
(* operators named after them give the calls in inference.py the effect    *)
(* the libraries have: torchio's grid of patch locations and its "average" *)
(* accumulation, and the in-order batching of an unshuffled DataLoader.    *)
(***************************************************************************)
EXTENDS Integers, Sequences, FiniteSets

VARIABLES
    kind,            \* "patch": a PatchBasedInference, "graph": a GraphNodeBasedInference
    self,            \* the attributes the constructor has set on the object
    nr_classes_arg,  \* the nr_classes argument the constructor was called with
    pc,              \* "ready" | "loop" | "done" | "error"
    err,             \* the exception that ended predict, "" if none
    operation,       \* the operation argument of predict
    image_shape,     \* <<H, W>> of the image given to predict
    output_channels, \* local of _predict
    locations,       \* image_sampler.locations, as DataLoader walks them
    pending,         \* indices of locations the loader has not yielded yet
    soft,            \* soft_predictions of the model, per yielded patch index
    aggregator,      \* the GridAggregator
    model_calls,     \* number of times self.model was run
    result,          \* value returned by predict
    node_logits,     \* output of the graph model
    superpixels,     \* label map given to GraphNodeBasedInference.predict
    permuted         \* TRUE once a batch was not the loader's next batch

vars == <<kind, self, nr_classes_arg, pc, err, operation, image_shape,
          output_channels, locations, pending, soft, aggregator, model_calls,
          result, node_logits, superpixels, permuted>>

\* ------------------------------------------------------------------ bounds
MaxH == 4
MaxW == 3
MaxOverlap == 2
MaxBatch == 2
MaxPatches == 4
MaxClasses == 2
MaxNodes == 2
MaxPix == 2

\* patch_size=(3, h, w): the image has 3 channels, which torchio sees as depth
ImageChannels == 3

Operations == {"per_class", "argmax", "softmax"}

\* ----------------------------------------------------------------- helpers
Min(a, b) == IF a < b THEN a ELSE b

RECURSIVE GCD(_, _)
GCD(a, b) == IF b = 0 THEN a ELSE GCD(b, a % b)

\* torch.true_divide(sum, count) of two integers, count >= 0, sum >= 0
TrueDivide(s, n) ==
    IF n = 0 THEN <<0, 0>>
    ELSE LET g == GCD(s, n) IN <<s \div g, n \div g>>

\* logits.sigmoid(), in thousandths, on the logits the model is given here
Sigmoid(x) == CASE x = 0 -> 500
                [] x = 1 -> 731
                [] OTHER -> 269

\* tensor.argmax over a row (1-based sequence): 0-based index of the first maximum
Argmax(row) ==
    CHOOSE i \in 0..(Len(row) - 1) :
        /\ \A j \in 0..(Len(row) - 1) : row[j + 1] <= row[i + 1]
        /\ \A j \in 0..(i - 1) : row[j + 1] < row[i + 1]

\* rows of logits a model with c outputs may give: one class scored above the rest
OneHotRows(c) == { [i \in 1..c |-> IF i = k THEN 1 ELSE 0] : k \in 1..c }

\* the same, and a row where all classes tie
LogitRows(c) == OneHotRows(c) \cup { [i \in 1..c |-> 1] }

\* ------------------------------------------------- tio.inference.GridSampler
\* GridSampler._parse_sizes: the ValueError cases
ParseSizesOk(image_size, patch_size, patch_overlap) ==
    \A d \in 1..3 :
        /\ patch_size[d] <= image_size[d]
        /\ patch_overlap[d] < patch_size[d]
        /\ patch_overlap[d] % 2 = 0

\* list(range(0, end, step)) for step > 0
Range0(end, step) ==
    IF end <= 0 THEN <<>>
    ELSE [n \in 1..(((end - 1) \div step) + 1) |-> (n - 1) * step]

\* variant of IndicesDim: the last index is not clamped to the image boundary
IndicesDimNoClamp(im_size_dim, patch_size_dim, patch_overlap_dim) ==
    Range0(im_size_dim + 1 - patch_size_dim, patch_size_dim - patch_overlap_dim)

\* variant of IndicesDim: the range ends at the image size, not at size + 1 - patch
IndicesDimWrongEnd(im_size_dim, patch_size_dim, patch_overlap_dim) ==
    LET indices_dim == Range0(im_size_dim, patch_size_dim - patch_overlap_dim)
    IN  IF indices_dim[Len(indices_dim)] # im_size_dim - patch_size_dim
        THEN Append(indices_dim, im_size_dim - patch_size_dim)
        ELSE indices_dim

\* one dimension of GridSampler._get_patches_locations
IndicesDim(im_size_dim, patch_size_dim, patch_overlap_dim) ==
    LET end == im_size_dim + 1 - patch_size_dim
        step == patch_size_dim - patch_overlap_dim
        indices_dim == Range0(end, step)
    IN  IF indices_dim[Len(indices_dim)] # im_size_dim - patch_size_dim
        THEN Append(indices_dim, im_size_dim - patch_size_dim)
        ELSE indices_dim

\* GridSampler._get_patches_locations: the meshgrid of the three index lists,
\* sorted, each row <<i_ini, j_ini, k_ini, i_fin, j_fin, k_fin>>
GetPatchesLocations(image_size, patch_size, patch_overlap) ==
    LET I == IndicesDim(image_size[1], patch_size[1], patch_overlap[1])
        J == IndicesDim(image_size[2], patch_size[2], patch_overlap[2])
        K == IndicesDim(image_size[3], patch_size[3], patch_overlap[3])
        nj == Len(J)
        nk == Len(K)
    IN  [n \in 1..(Len(I) * nj * nk) |->
            LET i == I[((n - 1) \div (nj * nk)) + 1]
                j == J[(((n - 1) \div nk) % nj) + 1]
                k == K[((n - 1) % nk) + 1]
            IN  <<i, j, k, i + patch_size[1], j + patch_size[2], k + patch_size[3]>>]

\* ---------------------------------------------- tio.inference.GridAggregator
\* index tuples of a tensor of the given spatial shape
Cells(shape) == (0..(shape[1] - 1)) \X (0..(shape[2] - 1)) \X (0..(shape[3] - 1))

\* cell c lies in the slice [i_ini:i_fin, j_ini:j_fin, k_ini:k_fin]
InSlice(c, location) ==
    \A d \in 1..3 : location[d] <= c[d] /\ c[d] < location[d + 3]

\* GridAggregator(label_sampler, overlap_mode="average")
NewAggregator(spatial_shape) ==
    [spatial_shape |-> spatial_shape, initialized |-> FALSE,
     output_tensor |-> <<>>, avgmask_tensor |-> <<>>]

\* _initialize_output_tensor and _initialize_avgmask_tensor
InitializeTensors(agg) ==
    IF agg.initialized THEN agg
    ELSE [agg EXCEPT !.initialized = TRUE,
                     !.output_tensor = [c \in Cells(agg.spatial_shape) |-> 0],
                     !.avgmask_tensor = [c \in Cells(agg.spatial_shape) |-> 0]]

\* variant of AddPatch: the patch replaces what the slice held
AddPatchOverwrite(agg, patch, location) ==
    [agg EXCEPT
        !.output_tensor = [c \in DOMAIN agg.output_tensor |->
            IF InSlice(c, location)
            THEN patch[<<c[1] - location[1], c[2] - location[2], c[3] - location[3]>>]
            ELSE agg.output_tensor[c]],
        !.avgmask_tensor = [c \in DOMAIN agg.avgmask_tensor |->
            IF InSlice(c, location) THEN 1 ELSE agg.avgmask_tensor[c]]]

\* variant of AddPatch: the count of a covered cell is set to 1, not incremented
AddPatchNoCount(agg, patch, location) ==
    [agg EXCEPT
        !.output_tensor = [c \in DOMAIN agg.output_tensor |->
            IF InSlice(c, location)
            THEN agg.output_tensor[c]
                 + patch[<<c[1] - location[1], c[2] - location[2], c[3] - location[3]>>]
            ELSE agg.output_tensor[c]],
        !.avgmask_tensor = [c \in DOMAIN agg.avgmask_tensor |->
            IF InSlice(c, location) THEN 1 ELSE agg.avgmask_tensor[c]]]

\* one iteration of the loop of add_batch, overlap_mode "average":
\*   output_tensor[:, i_ini:i_fin, j_ini:j_fin, k_ini:k_fin] += patch
\*   avgmask_tensor[:, i_ini:i_fin, j_ini:j_fin, k_ini:k_fin] += 1
AddPatch(agg, patch, location) ==
    [agg EXCEPT
        !.output_tensor = [c \in DOMAIN agg.output_tensor |->
            IF InSlice(c, location)
            THEN agg.output_tensor[c]
                 + patch[<<c[1] - location[1], c[2] - location[2], c[3] - location[3]>>]
            ELSE agg.output_tensor[c]],
        !.avgmask_tensor = [c \in DOMAIN agg.avgmask_tensor |->
            IF InSlice(c, location) THEN agg.avgmask_tensor[c] + 1
            ELSE agg.avgmask_tensor[c]]]

\* add_batch(batch_tensor, locations): the patches of seq, in its order
RECURSIVE AddBatchTo(_, _, _, _)
AddBatchTo(agg, patches, locs, seq) ==
    IF seq = <<>> THEN agg
    ELSE AddBatchTo(AddPatch(InitializeTensors(agg), patches[Head(seq)], locs[Head(seq)]),
                    patches, locs, Tail(seq))

\* get_output_tensor(), overlap_mode "average": output / avgmask (an int64
\* tensor of labels is first cast to int32, which keeps its values)
GetOutputTensor(agg) ==
    [c \in DOMAIN agg.output_tensor |->
        TrueDivide(agg.output_tensor[c], agg.avgmask_tensor[c])]

\* ------------------------------------------------------ PatchBasedInference
\* _predict, lines 65-72: the channels of the fake label tensor, or the exception
\* variant of OutputChannels: no else branch, any other operation is taken as "argmax"
OutputChannelsFallThrough(obj, op) ==
    IF op = "per_class"
    THEN IF "nr_classes" \in DOMAIN obj
         THEN [error |-> "", value |-> obj.nr_classes]
         ELSE [error |-> "AttributeError", value |-> 0]
    ELSE [error |-> "", value |-> 1]

OutputChannels(obj, op) ==
    IF op = "per_class"
    THEN IF "nr_classes" \in DOMAIN obj
         THEN [error |-> "", value |-> obj.nr_classes]
         ELSE [error |-> "AttributeError", value |-> 0]
    ELSE IF op = "argmax"
         THEN [error |-> "", value |-> 1]
         ELSE [error |-> "NotImplementedError", value |-> 0]

\* variant of PatchTensor: the "argmax" tensor is not constant over the patch
PatchTensorRamp(op, soft_predictions, patch_size) ==
    IF op = "per_class"
    THEN [c \in Cells(<<Len(soft_predictions), patch_size[1], patch_size[2]>>) |->
            soft_predictions[c[1] + 1]]
    ELSE [c \in Cells(<<1, patch_size[1], patch_size[2]>>) |->
            Argmax(soft_predictions) + c[2]]

\* lines 105-117: the model's output for one patch, repeated to the patch size
PatchTensor(op, soft_predictions, patch_size) ==
    IF op = "per_class"
    THEN [c \in Cells(<<Len(soft_predictions), patch_size[1], patch_size[2]>>) |->
            soft_predictions[c[1] + 1]]
    ELSE [c \in Cells(<<1, patch_size[1], patch_size[2]>>) |->
            Argmax(soft_predictions)]

\* the batch the DataLoader yields next: the first batch_size pending indices
NextBatch ==
    LET first == CHOOSE i \in pending : \A j \in pending : i <= j
        last == Min(first + self.batch_size - 1, Len(locations))
    IN  [m \in 1..(last - first + 1) |-> first + m - 1]

\* sequences that list every element of S once
Orderings(S) ==
    { s \in [1..Cardinality(S) -> S] : \A a, b \in 1..Cardinality(S) : a # b => s[a] # s[b] }

\* predict (lines 132-135) and _predict up to the loop (lines 65-93).  Images
\* whose grid has more than MaxPatches patches are left out.
PredictStart(H, W, op) ==
    /\ kind = "patch"
    /\ pc = "ready"
    /\ operation' = op
    /\ image_shape' = <<H, W>>
    /\ LET oc == OutputChannels(self, op)
           patch3 == <<ImageChannels, self.patch_size[1], self.patch_size[2]>>
           patch1 == <<1, self.patch_size[1], self.patch_size[2]>>
           overlap3 == <<0, self.overlap[1], self.overlap[2]>>
           ok == /\ oc.error = ""
                 /\ ParseSizesOk(<<ImageChannels, H, W>>, patch3, overlap3)
                 /\ ParseSizesOk(<<oc.value, H, W>>, patch1, overlap3)
           locs == IF ok THEN GetPatchesLocations(<<ImageChannels, H, W>>, patch3, overlap3)
                   ELSE <<>>
       IN  /\ Len(locs) <= MaxPatches
           /\ output_channels' = oc.value
           /\ locations' = locs
           /\ pending' = 1..Len(locs)
           /\ aggregator' = IF ok THEN NewAggregator(<<oc.value, H, W>>) ELSE aggregator
           /\ pc' = IF ok THEN "loop" ELSE "error"
           /\ err' = IF ok THEN "" ELSE IF oc.error # "" THEN oc.error ELSE "ValueError"
    /\ UNCHANGED <<kind, self, nr_classes_arg, soft, model_calls, result,
                   node_logits, superpixels, permuted>>

\* one iteration of the loop, lines 96-122, on the patches seq with the model's logits
LoopBody(seq, logits) ==
    LET idxs == { seq[m] : m \in 1..Len(seq) }
        batch_locations == [i \in idxs |-> [locations[i] EXCEPT ![4] = output_channels]]
        soft_predictions == [i \in idxs |->
                                [j \in 1..Len(logits[i]) |-> Sigmoid(logits[i][j])]]
        output_tensor == [i \in idxs |->
                             PatchTensor(operation, soft_predictions[i], self.patch_size)]
    IN  /\ model_calls' = model_calls + 1
        /\ pending' = pending \ idxs
        /\ IF operation \in {"per_class", "argmax"}
           THEN /\ aggregator' = AddBatchTo(aggregator, output_tensor, batch_locations, seq)
                /\ soft' = [i \in (DOMAIN soft) \cup idxs |->
                               IF i \in idxs THEN soft_predictions[i] ELSE soft[i]]
                /\ UNCHANGED <<pc, err>>
           ELSE /\ pc' = "error"
                /\ err' = "NotImplementedError"
                /\ UNCHANGED <<aggregator, soft>>
        /\ UNCHANGED <<kind, self, nr_classes_arg, operation, image_shape,
                       output_channels, locations, result, node_logits, superpixels>>

\* the loop as the code runs it: DataLoader yields the locations in order
AddBatch ==
    /\ pc = "loop"
    /\ pending # {}
    /\ \E logits \in [{ NextBatch[m] : m \in 1..Len(NextBatch) } -> OneHotRows(nr_classes_arg)] :
           LoopBody(NextBatch, logits)
    /\ UNCHANGED permuted

\* the loop with the add_batch calls permuted and regrouped
AddBatchPermuted ==
    /\ pc = "loop"
    /\ pending # {}
    /\ \E S \in SUBSET pending :
           /\ S # {}
           /\ Cardinality(S) <= self.batch_size
           /\ \E seq \in Orderings(S) :
                  /\ \E logits \in [S -> OneHotRows(nr_classes_arg)] : LoopBody(seq, logits)
                  /\ permuted' = (permuted \/ seq # NextBatch)

\* lines 123-126: get_output_tensor()[0] or get_output_tensor()[0][0]; index 0
\* is the channel dimension torchio puts first, which the tensors here leave out
Returned(agg, op, shape) ==
    LET out == GetOutputTensor(agg)
    IN  IF op = "per_class" THEN out
        ELSE [p \in (0..(shape[1] - 1)) \X (0..(shape[2] - 1)) |-> out[<<0, p[1], p[2]>>]]

\* lines 123-130
Finish ==
    /\ pc = "loop"
    /\ pending = {}
    /\ IF operation \in {"per_class", "argmax"}
       THEN /\ result' = Returned(aggregator, operation, image_shape)
            /\ pc' = "done"
            /\ UNCHANGED err
       ELSE /\ pc' = "error"
            /\ err' = "NotImplementedError"
            /\ UNCHANGED result
    /\ UNCHANGED <<kind, self, nr_classes_arg, operation, image_shape, output_channels,
                   locations, pending, soft, aggregator, model_calls,
                   node_logits, superpixels, permuted>>

\* ------------------------------------------------------ get_segmentation_map
\* node_logits.argmax(axis=1), indexed by node 0..N-1
NodePredictions(logits) == [n \in 0..(Len(logits) - 1) |-> Argmax(logits[n + 1])]

\* variant of SpxIndices: >= in place of ==
SpxIndicesAtLeast(node_predictions, label) ==
    { n \in DOMAIN node_predictions : node_predictions[n] >= label }

\* np.where(node_predictions == label)
SpxIndices(node_predictions, label) ==
    { n \in DOMAIN node_predictions : node_predictions[n] = label }

\* variant of MapL: superpixel ids are matched against the predictions, not the indices
MapLByValue(spx, node_predictions, label) ==
    [p \in DOMAIN spx |->
        IF spx[p] \in { node_predictions[n] : n \in SpxIndices(node_predictions, label) }
        THEN label ELSE 0]

\* np.isin(superpixels, spx_indices) * label
MapL(spx, node_predictions, label) ==
    [p \in DOMAIN spx |->
        IF spx[p] \in SpxIndices(node_predictions, label) THEN label ELSE 0]

\* np.stack(all_maps).sum(axis=0) over the labels 0..n-1
RECURSIVE SumMaps(_, _, _)
SumMaps(spx, node_predictions, n) ==
    IF n = 0 THEN [p \in DOMAIN spx |-> 0]
    ELSE LET rest == SumMaps(spx, node_predictions, n - 1)
             map_l == MapL(spx, node_predictions, n - 1)
         IN  [p \in DOMAIN spx |-> rest[p] + map_l[p]]

GetSegmentationMap(logits, spx, NR_CLASSES) ==
    SumMaps(spx, NodePredictions(logits), NR_CLASSES)

\* GraphNodeBasedInference.predict, lines 143-157; the label map is flattened.
\* The model returns the node logits, or a tuple (graph logits, node logits).
GraphPredict(op, is_tuple, logits, spx) ==
    /\ kind = "graph"
    /\ pc = "ready"
    /\ operation' = op
    /\ superpixels' = spx
    /\ IF op # "argmax"
       THEN /\ pc' = "error"
            /\ err' = "AssertionError"
            /\ UNCHANGED <<model_calls, node_logits, result>>
       ELSE LET model_output == <<logits[1], logits>>
                unpacked == IF is_tuple THEN model_output[2] ELSE logits
            IN  /\ model_calls' = model_calls + 1
                /\ node_logits' = unpacked
                /\ result' = GetSegmentationMap(unpacked, spx, self.NR_CLASSES)
                /\ pc' = "done"
                /\ UNCHANGED err
    /\ UNCHANGED <<kind, self, nr_classes_arg, image_shape, output_channels, locations,
                   pending, soft, aggregator, permuted>>

\* node logits a graph model may return for 1..MaxNodes nodes: the model has
\* as many outputs as the NR_CLASSES given to the constructor, or one more
NodeLogits ==
    UNION { [1..n -> LogitRows(k)] : n \in 1..MaxNodes,
                                     k \in {nr_classes_arg, nr_classes_arg + 1} }

LabelMaps == UNION { [1..n -> (0 - 1)..MaxNodes] : n \in 1..MaxPix }

\* ---------------------------------------------------------- specifications
\* the objects as their constructors leave them (lines 35-62 and 139-141)
Init ==
    /\ kind \in {"patch", "graph"}
    /\ nr_classes_arg \in 1..MaxClasses
    /\ IF kind = "patch"
       THEN self \in [patch_size : (1..MaxH) \X (1..MaxW),
                      overlap : (0..MaxOverlap) \X (0..MaxOverlap),
                      batch_size : 1..MaxBatch,
                      num_workers : {0}]
       ELSE self = [NR_CLASSES |-> nr_classes_arg]
    /\ pc = "ready"
    /\ err = ""
    /\ operation = ""
    /\ image_shape = <<0, 0>>
    /\ output_channels = 0
    /\ locations = <<>>
    /\ pending = {}
    /\ soft = [i \in {} |-> <<>>]
    /\ aggregator = NewAggregator(<<0, 0, 0>>)
    /\ model_calls = 0
    /\ result = <<>>
    /\ node_logits = <<>>
    /\ superpixels = <<>>
    /\ permuted = FALSE

Predict ==
    /\ pc = "ready"
    /\ kind = "patch"
    /\ \E H \in 1..MaxH, W \in 1..MaxW, op \in Operations : PredictStart(H, W, op)

GraphPredictAny ==
    /\ pc = "ready"
    /\ kind = "graph"
    /\ \E op \in Operations, is_tuple \in BOOLEAN, logits \in NodeLogits, spx \in LabelMaps :
           GraphPredict(op, is_tuple, logits, spx)

Next == Predict \/ AddBatch \/ Finish \/ GraphPredictAny

Spec == Init /\ [][Next]_vars

NextPerm == Predict \/ AddBatchPermuted \/ Finish

\* patch-based objects whose model has two classes
InitPerm == Init /\ kind = "patch" /\ nr_classes_arg = 2

SpecPerm == InitPerm /\ [][NextPerm]_vars

\* ------------------------------------------------------------------ claims
Pixels == (0..(image_shape[1] - 1)) \X (0..(image_shape[2] - 1))

\* the patches whose placement holds pixel p = <<y, x>>
Covering(p) ==
    { i \in 1..Len(locations) :
        /\ locations[i][2] <= p[1] /\ p[1] < locations[i][5]
        /\ locations[i][3] <= p[2] /\ p[2] < locations[i][6] }

\* the hard label the model gave patch i
Hard(i) == Argmax(soft[i])

\* what patch i adds to channel ch of the pixels of its placement
Contribution(i, ch) == IF operation = "per_class" THEN soft[i][ch + 1] ELSE Hard(i)

RECURSIVE SumContributions(_, _)
SumContributions(S, ch) ==
    IF S = {} THEN 0
    ELSE LET i == CHOOSE j \in S : TRUE
         IN  Contribution(i, ch) + SumContributions(S \ {i}, ch)

\* the returned value at channel ch of pixel p
ResultAt(ch, p) == IF operation = "per_class" THEN result[<<ch, p[1], p[2]>>] ELSE result[p]

\* the last row and the last column of patches are both clamped ones
ClampedGrid ==
    /\ self.overlap = <<0, 0>>
    /\ (image_shape[1] - self.patch_size[1]) % self.patch_size[1] # 0
    /\ (image_shape[2] - self.patch_size[2]) % self.patch_size[2] # 0

\* C1: every patch origin the grid sampler generates keeps its patch inside
\* the image: 0 <= y, y + h <= H, 0 <= x, x + w <= W.
PatchesInBounds ==
    \A i \in 1..Len(locations) :
        /\ 0 <= locations[i][2]
        /\ locations[i][5] = locations[i][2] + self.patch_size[1]
        /\ locations[i][5] <= image_shape[1]
        /\ 0 <= locations[i][3]
        /\ locations[i][6] = locations[i][3] + self.patch_size[2]
        /\ locations[i][6] <= image_shape[2]

PatchesInBoundsWitness ==
    /\ pc = "loop"
    /\ ClampedGrid
    /\ \E i \in 1..Len(locations) :
           /\ locations[i][5] = image_shape[1]
           /\ locations[i][6] = image_shape[2]

\* C2: once every patch was added, every pixel is covered by a patch, its
\* count is at least 1 and the returned quotient has a non-zero divisor.
EveryPixelCovered ==
    /\ (pc = "loop" /\ pending = {}) =>
           \A c \in DOMAIN aggregator.avgmask_tensor : aggregator.avgmask_tensor[c] >= 1
    /\ (kind = "patch" /\ pc = "done") =>
           /\ \A p \in Pixels : Covering(p) # {}
           /\ \A c \in DOMAIN aggregator.avgmask_tensor : aggregator.avgmask_tensor[c] >= 1
           /\ \A p \in DOMAIN result : result[p][2] # 0

EveryPixelCoveredWitness ==
    /\ kind = "patch"
    /\ pc = "done"
    /\ ClampedGrid
    /\ \E p, q \in Pixels : Cardinality(Covering(p)) = 1 /\ Cardinality(Covering(q)) > 1

\* C3: after all patches were added the output at every pixel is the sum of
\* the predictions of the patches covering it divided by their number; a pixel
\* covered by one patch holds that patch's prediction.
OverlapAverage ==
    (kind = "patch" /\ pc = "done") =>
        \A p \in Pixels : \A ch \in 0..(output_channels - 1) :
            /\ ResultAt(ch, p) = TrueDivide(SumContributions(Covering(p), ch),
                                            Cardinality(Covering(p)))
            /\ \A i \in Covering(p) :
                   Covering(p) = {i} => ResultAt(ch, p) = <<Contribution(i, ch), 1>>

OverlapAverageWitness ==
    /\ kind = "patch"
    /\ pc = "done"
    /\ operation = "argmax"
    /\ \E p, q \in Pixels :
           /\ Cardinality(Covering(p)) = 1
           /\ \E i, j \in Covering(q) : Hard(i) # Hard(j)

\* the output of the loop run in the loader's order, one patch per add_batch
Reference ==
    LET idxs == 1..Len(locations)
        batch_locations == [i \in idxs |-> [locations[i] EXCEPT ![4] = output_channels]]
        output_tensor == [i \in idxs |-> PatchTensor(operation, soft[i], self.patch_size)]
        agg == AddBatchTo(NewAggregator(<<output_channels, image_shape[1], image_shape[2]>>),
                          output_tensor, batch_locations, [i \in idxs |-> i])
    IN  Returned(agg, operation, image_shape)

\* C4: for fixed per-patch predictions the output is the same for every order
\* and grouping of the add_batch calls.
OrderIndependent ==
    (kind = "patch" /\ pc = "done") => result = Reference

OrderIndependentWitness ==
    /\ kind = "patch"
    /\ pc = "done"
    /\ permuted
    /\ self.batch_size > 1
    /\ \E p \in Pixels : \E i, j \in Covering(p) : Hard(i) # Hard(j)

\* C5, as stated: every pixel whose superpixel id is a node holds the argmax
\* class of that node's logits.
BroadcastAsStated ==
    (kind = "graph" /\ pc = "done") =>
        \A p \in DOMAIN superpixels :
            superpixels[p] \in 0..(Len(node_logits) - 1) =>
                result[p] = Argmax(node_logits[superpixels[p] + 1])

\* C5, amended: every pixel whose superpixel id is a node, and whose node has
\* an argmax class below NR_CLASSES, holds that class.
Broadcast ==
    (kind = "graph" /\ pc = "done") =>
        \A p \in DOMAIN superpixels :
            (/\ superpixels[p] \in 0..(Len(node_logits) - 1)
             /\ Argmax(node_logits[superpixels[p] + 1]) < self.NR_CLASSES) =>
                result[p] = Argmax(node_logits[superpixels[p] + 1])

BroadcastWitness ==
    /\ kind = "graph"
    /\ pc = "done"
    /\ \E p, q \in DOMAIN superpixels :
           /\ superpixels[p] \in 0..(Len(node_logits) - 1)
           /\ superpixels[q] \in 0..(Len(node_logits) - 1)
           /\ result[p] = 1
           /\ result[q] = 0
           /\ Argmax(node_logits[superpixels[p] + 1]) = 1
           /\ Argmax(node_logits[superpixels[q] + 1]) = 0

\* C6: with operation "argmax" every returned pixel is an integer class label,
\* the highest-scoring class of a patch covering the pixel.
ArgmaxIsHardLabel ==
    (kind = "patch" /\ pc = "done" /\ operation = "argmax") =>
        \A p \in Pixels :
            /\ result[p][2] = 1
            /\ result[p][1] \in { Hard(i) : i \in Covering(p) }

\* the sizes given to predict pass GridSampler's checks
SizesOk ==
    ParseSizesOk(<<ImageChannels, image_shape[1], image_shape[2]>>,
                 <<ImageChannels, self.patch_size[1], self.patch_size[2]>>,
                 <<0, self.overlap[1], self.overlap[2]>>)

\* C7: predict with operation "per_class" reaches no error and returns a
\* tensor of shape (nr_classes, H, W).
PerClassReturns ==
    (kind = "patch" /\ pc # "ready" /\ operation = "per_class" /\ SizesOk) =>
        /\ pc # "error"
        /\ pc = "done" =>
               DOMAIN result = Cells(<<nr_classes_arg, image_shape[1], image_shape[2]>>)

\* C8: any other operation ends predict in NotImplementedError with no sampler
\* or aggregator created, the model never run and nothing returned.
UnsupportedOperation ==
    (kind = "patch" /\ pc # "ready" /\ operation \notin {"per_class", "argmax"}) =>
        /\ pc = "error"
        /\ err = "NotImplementedError"
        /\ locations = <<>>
        /\ pending = {}
        /\ aggregator = NewAggregator(<<0, 0, 0>>)
        /\ model_calls = 0
        /\ DOMAIN soft = {}
        /\ result = <<>>

UnsupportedOperationWitness ==
    /\ kind = "patch"
    /\ operation = "softmax"
    /\ pc = "error"
    /\ SizesOk

\* the labels whose map is non-zero at pixel p
NonZeroMaps(p) ==
    { l \in 0..(self.NR_CLASSES - 1) :
        MapL(superpixels, NodePredictions(node_logits), l)[p] # 0 }

SameCoverSameValue ==
    (kind = "patch" /\ pc = "done") =>
        \A p, q \in Pixels :
            Covering(p) = Covering(q) =>
                \A ch \in 0..(output_channels - 1) : ResultAt(ch, p) = ResultAt(ch, q)

SameCoverSameValueWitness ==
    /\ kind = "patch"
    /\ pc = "done"
    /\ \E p, q, r \in Pixels :
           /\ p # q
           /\ Covering(p) = Covering(q)
           /\ Cardinality(Covering(p)) > 1
           /\ result[p] # result[r]

====
